---- MODULE Spec2Model ----
(***************************************************************************)
(* Order lifecycle and payment settlement of api-mantas-trenzas.           *)
(*                                                                         *)
(* The persisted state is the two tables the repository's SQL statements   *)
(* address (pedidos, pedido_items).  Every HTTP request is a process r of  *)
(* Reqs: it runs one operation of PedidoService / PedidoController and     *)
(* every awaited repository statement is one step, so that the statements  *)
(* of concurrent requests interleave as they do on the connection pool.    *)
(* A repository transaction (create, update, delete) becomes visible at    *)
(* its commit and is one step.  The timestamps created_at / updated_at are *)
(* not modelled.                                                           *)
(*                                                                         *)
(* SpecTx runs the same transactions statement by statement, with the     *)
(* statements that throw and the rollback of the catch block; SpecFalla    *)
(* adds the statements that throw inside procesarPago.                     *)
(*                                                                         *)
(* The in-memory entity Pedido (constructor, setters, addItem, removeItem, *)
(* updateItemCantidad) is the variable pedido, exercised by SpecPedido.    *)
(*                                                                         *)
(* SpecRutas puts the state-changing order routes behind their             *)
(* middlewares (user is req.user.role); SpecLectura runs repository        *)
(* findById next to the transactions.  The entity Producto is the variable *)
(* producto (SpecProducto); ProductoService with the table productos and   *)
(* the in-memory cache is SpecCache.                                       *)
(***************************************************************************)
EXTENDS Integers, Sequences, FiniteSets, TLC

\* ---------------------------------------------------------------- bounds
MaxReqs == 3
MaxPedidos == 2
MaxNonce == 2
MaxCantidad == 2
MaxPrecio == 2
MaxTotal == 2
MaxProducto == 2
MaxItems == 2
MaxStock == 24

Reqs == 1..MaxReqs
Ids == 1..MaxPedidos

\* ------------------------------------------------------ enums and values
PENDIENTE == "pendiente"
PAGADO == "pagado"
ENVIADO == "enviado"
ENTREGADO == "entregado"
CANCELADO == "cancelado"
EstadoPedido == {PENDIENTE, PAGADO, ENVIADO, ENTREGADO, CANCELADO}

STRIPE == "stripe"
PAYPAL == "paypal"
TRANSFERENCIA == "transferencia"
MetodoPago == {STRIPE, PAYPAL, TRANSFERENCIA}

\* referenciaPago?: string -- undefined / NULL / '' are all falsy
NoRef == ""
\* references a caller can put in a request body
RefsCliente == {"TR-1"}

\* a row of pedidos that does not exist
NoRow == [existe |-> FALSE]
\* no Pedido held by a request (findById returned null, or nothing read yet)
NoPedido == [existe |-> FALSE]
NoCall == [op |-> "none", id |-> 0]
NoResult == [success |-> FALSE, referenciaPago |-> NoRef, error |-> "none"]

ErrNoEncontrado == "no encontrado"
ErrNoPendiente == "no esta en estado pendiente"
ErrMetodo == "metodo de pago no soportado"

VARIABLES pedidos, pedido_items, insertId, pc, call, local, result,
          pedido, lastCall, producto, productos, cache, user

dbVars == <<pedidos, pedido_items, insertId>>
reqVars == <<pc, call, local, result>>
entVars == <<pedido, lastCall>>
prodVars == <<producto, productos, cache>>
vars == <<pedidos, pedido_items, insertId, pc, call, local, result,
          pedido, lastCall, producto, productos, cache, user>>

\* ----------------------------------------------------------------- items
RECURSIVE SumSubtotal(_)
SumSubtotal(items) ==
    IF items = <<>> THEN 0
    ELSE SumSubtotal(SubSeq(items, 1, Len(items) - 1)) + items[Len(items)].subtotal

\* Pedido.recalcularTotal: items.reduce((sum, item) => sum + item.subtotal, 0)
recalcularTotal(items) == SumSubtotal(items)

\* ------------------------------------------------------------ repository
Row(estado, total, direccionEnvio, metodoPago, referenciaPago) ==
    [existe |-> TRUE, estado |-> estado, total |-> total,
     direccionEnvio |-> direccionEnvio, metodoPago |-> metodoPago,
     referenciaPago |-> referenciaPago]

Existe(tabla, id) == id \in DOMAIN tabla /\ tabla[id].existe

\* UPDATE pedidos SET estado = ?, updated_at = ? WHERE id = ?
updateEstado(tabla, id, estado) ==
    IF Existe(tabla, id) THEN [tabla EXCEPT ![id].estado = estado] ELSE tabla

\* UPDATE pedidos SET referencia_pago = ?, updated_at = ? WHERE id = ?
updateReferenciaPago(tabla, id, referenciaPago) ==
    IF Existe(tabla, id) THEN [tabla EXCEPT ![id].referenciaPago = referenciaPago]
    ELSE tabla

\* ------------------------------------------------- PedidoService.procesarPago
EsPendienteSiempre(p) == TRUE

\* pedido.getEstado !== EstadoPedido.PENDIENTE  (negated)
EsPendiente(p) == p.estado = PENDIENTE

\* the switch on pedido.getMetodoPago; nonce stands for Date.now() and
\* Math.random() of the call
ReferenciaDe(metodoPago, paymentInfo, nonce) ==
    CASE metodoPago = STRIPE -> "stripe_" \o ToString(nonce)
      [] metodoPago = PAYPAL -> "paypal_" \o ToString(nonce)
      [] metodoPago = TRANSFERENCIA ->
            IF paymentInfo.referencia # NoRef THEN paymentInfo.referencia
            ELSE "transfer_" \o ToString(nonce)
      [] OTHER -> NoRef

EstadoTrasPagoPendiente == PENDIENTE

\* the state procesarPago writes after the reference
EstadoTrasPago == PAGADO

Fallo(error) == [success |-> FALSE, referenciaPago |-> NoRef, error |-> error]
Exito(ref) == [success |-> TRUE, referenciaPago |-> ref, error |-> ""]

\* const pedido = await findById(pedidoId); the two early returns; the switch.
\* A request keeps its paymentInfo only while it is in flight.
ProcesarPago_findById(r, id, paymentInfo, nonce) ==
    /\ pc[r] = "idle"
    /\ IF ~Existe(pedidos, id)
       THEN /\ result' = [result EXCEPT ![r] = Fallo(ErrNoEncontrado)]
            /\ pc' = [pc EXCEPT ![r] = "done"]
            /\ call' = [call EXCEPT ![r] = [op |-> "procesarPago", id |-> id]]
            /\ local' = local
       ELSE IF ~EsPendiente(pedidos[id])
       THEN /\ result' = [result EXCEPT ![r] = Fallo(ErrNoPendiente)]
            /\ pc' = [pc EXCEPT ![r] = "done"]
            /\ call' = [call EXCEPT ![r] = [op |-> "procesarPago", id |-> id]]
            /\ local' = local
       ELSE LET ref == ReferenciaDe(pedidos[id].metodoPago, paymentInfo, nonce) IN
            IF pedidos[id].metodoPago \notin MetodoPago
            THEN /\ result' = [result EXCEPT ![r] = Fallo(ErrMetodo)]
                 /\ pc' = [pc EXCEPT ![r] = "done"]
                 /\ call' = [call EXCEPT ![r] = [op |-> "procesarPago", id |-> id]]
                 /\ local' = local
            ELSE /\ local' = [local EXCEPT ![r] =
                                [existe |-> TRUE, estado |-> pedidos[id].estado,
                                 metodoPago |-> pedidos[id].metodoPago,
                                 referenciaPago |-> ref]]
                 /\ pc' = [pc EXCEPT ![r] = "pago_referencia"]
                 /\ call' = [call EXCEPT ![r] = [op |-> "procesarPago", id |-> id,
                                                 paymentInfo |-> paymentInfo]]
                 /\ result' = result
    /\ UNCHANGED <<dbVars, entVars, prodVars, user>>

\* await this.pedidoRepository.updateReferenciaPago(pedidoId, referenciaPago)
ProcesarPago_updateReferenciaPago(r) ==
    /\ pc[r] = "pago_referencia"
    /\ pedidos' = updateReferenciaPago(pedidos, call[r].id, local[r].referenciaPago)
    /\ pc' = [pc EXCEPT ![r] = "pago_estado"]
    /\ UNCHANGED <<pedido_items, insertId, call, local, result, entVars, prodVars, user>>

\* await this.pedidoRepository.updateEstado(pedidoId, EstadoPedido.PAGADO)
ProcesarPago_updateEstado(r) ==
    /\ pc[r] = "pago_estado"
    /\ pedidos' = updateEstado(pedidos, call[r].id, EstadoTrasPago)
    /\ pc' = [pc EXCEPT ![r] = "pago_return"]
    /\ UNCHANGED <<pedido_items, insertId, call, local, result, entVars, prodVars, user>>

\* return { success: true, referenciaPago }
ProcesarPago_return(r) ==
    /\ pc[r] = "pago_return"
    /\ result' = [result EXCEPT ![r] = Exito(local[r].referenciaPago)]
    /\ local' = [local EXCEPT ![r] = NoPedido]
    /\ call' = [call EXCEPT ![r] = [op |-> "procesarPago", id |-> call[r].id]]
    /\ pc' = [pc EXCEPT ![r] = "done"]
    /\ UNCHANGED <<dbVars, entVars, prodVars, user>>

\* request bodies of POST /:id/pago: a body with the field procesarPago
\* reads (referencia), the documented Transferencia body (comprobante), and
\* the documented Stripe body with a card token the gateway confirms or
\* declines
PaymentInfos ==
    {[referencia |-> "TR-1", comprobante |-> NoRef, token |-> ""],
     [referencia |-> NoRef, comprobante |-> "TR-1", token |-> ""],
     [referencia |-> NoRef, comprobante |-> NoRef, token |-> "tok_visa"],
     [referencia |-> NoRef, comprobante |-> NoRef, token |-> "tok_rechazada"]}

\* StripeService.confirmPayment: success only when the payment intent of the
\* card token reaches status succeeded; a decline, an error and a timeout
\* all come back as success: false.  procesarPago never calls it.
confirmPayment(paymentInfo) == paymentInfo.token = "tok_visa"

ProcesarPago(r) ==
    \/ \E id \in Ids, paymentInfo \in PaymentInfos, nonce \in 1..MaxNonce :
          ProcesarPago_findById(r, id, paymentInfo, nonce)
    \/ ProcesarPago_updateReferenciaPago(r)
    \/ ProcesarPago_updateEstado(r)
    \/ ProcesarPago_return(r)

\* ------------------------------------------------ CreatePedidoDTO / create
\* what the class-validator decorators of PedidoItemDTO declare: @Min(1)
\* cantidad, @Min(0) precioUnitario, @Min(0) subtotal
ItemValido(item) ==
    /\ item.cantidad >= 1
    /\ item.precioUnitario >= 0
    /\ item.subtotal >= 0

DTOValido(dto) == \A i \in 1..Len(dto.items) : ItemValido(dto.items[i])

\* CreatePedidoDTO.toEntity: new Pedido({estado: PENDIENTE, total, ...})
toEntity(dto) ==
    [existe |-> TRUE, estado |-> PENDIENTE, total |-> recalcularTotal(dto.items),
     direccionEnvio |-> dto.direccionEnvio, metodoPago |-> dto.metodoPago,
     referenciaPago |-> dto.referenciaPago, items |-> dto.items]

\* the columns of a Pedido as create and update bind them
RowOf(p) == Row(p.estado, p.total, p.direccionEnvio, p.metodoPago, p.referenciaPago)

\* validate(createPedidoDTO) after Object.assign(createPedidoDTO, req.body):
\* the items of the body stay plain objects (no plainToClass), so
\* class-validator finds no PedidoItemDTO metadata for them and applies none
\* of its decorators.  It skips such an item, or, where forbidUnknownValues
\* is on (the default since class-validator 0.14), reports it as an unknown
\* value.  TRUE: no errors.
validate(dto, forbidUnknownValues) == forbidUnknownValues => dto.items = <<>>

\* PedidoController.createPedido: validate, toEntity, repository create
\* (INSERT INTO pedidos, INSERT INTO pedido_items per item, commit)
CreatePedido(r, dto, forbidUnknownValues) ==
    /\ pc[r] = "idle"
    /\ call' = [call EXCEPT ![r] = [op |-> "createPedido", id |-> insertId]]
    /\ pc' = [pc EXCEPT ![r] = "done"]
    /\ IF ~validate(dto, forbidUnknownValues)
       THEN /\ result' = [result EXCEPT ![r] = Fallo("datos invalidos")]
            /\ UNCHANGED <<dbVars, local>>
       ELSE /\ insertId <= MaxPedidos
            /\ pedidos' = [pedidos EXCEPT ![insertId] = RowOf(toEntity(dto))]
            /\ pedido_items' = [pedido_items EXCEPT ![insertId] = toEntity(dto).items]
            /\ insertId' = insertId + 1
            /\ result' = [result EXCEPT ![r] = Exito(dto.referenciaPago)]
            /\ local' = local
    /\ UNCHANGED <<entVars, prodVars, user>>

\* ------------------------------------------ PedidoService.updateEstadoPedido
\* repository updateEstado: one autocommitted UPDATE, no check of the
\* current state and none of the number of rows it matched; the promise
\* resolves with findById(id) (null when there is no row) and never rejects
\* for a missing order: success records that it resolved
UpdateEstadoPedido(r, id, estado) ==
    /\ pc[r] = "idle"
    /\ call' = [call EXCEPT ![r] =
                  [op |-> "updateEstadoPedido", id |-> id, estado |-> estado]]
    /\ pedidos' = updateEstado(pedidos, id, estado)
    /\ result' = [result EXCEPT ![r] =
                    [success |-> TRUE, referenciaPago |-> NoRef, error |-> ""]]
    /\ pc' = [pc EXCEPT ![r] = "done"]
    /\ UNCHANGED <<pedido_items, insertId, local, entVars, prodVars, user>>

\* ---------------------------------------------- PedidoController.updatePedido
NoDTO == [direccionEnvio |-> "", estado |-> "", metodoPago |-> "", referenciaPago |-> NoRef]

\* request bodies of PUT /:id: one field each, and the documented example
UpdatePedidoDTOs ==
    {[NoDTO EXCEPT !.direccionEnvio = "dir1"]}
    \cup {[NoDTO EXCEPT !.estado = e] : e \in EstadoPedido}
    \cup {[NoDTO EXCEPT !.metodoPago = TRANSFERENCIA]}
    \cup {[NoDTO EXCEPT !.referenciaPago = ref] : ref \in RefsCliente}
    \cup {[NoDTO EXCEPT !.direccionEnvio = "dir1", !.estado = ENVIADO]}

\* the four guarded setters of updatePedido
AplicarDTO(p, dto) ==
    [p EXCEPT
       !.direccionEnvio = IF dto.direccionEnvio # "" THEN dto.direccionEnvio ELSE @,
       !.estado = IF dto.estado # "" THEN dto.estado ELSE @,
       !.metodoPago = IF dto.metodoPago # "" THEN dto.metodoPago ELSE @,
       !.referenciaPago = IF dto.referenciaPago # NoRef THEN dto.referenciaPago ELSE @]

\* getPedidoById -> findById: SELECT * FROM pedidos WHERE id = ?
UpdatePedido_findById(r, id, dto) ==
    /\ pc[r] = "idle"
    /\ IF ~Existe(pedidos, id)
       THEN /\ result' = [result EXCEPT ![r] = Fallo(ErrNoEncontrado)]
            /\ pc' = [pc EXCEPT ![r] = "done"]
            /\ call' = [call EXCEPT ![r] = [op |-> "updatePedido", id |-> id]]
            /\ local' = local
       ELSE /\ call' = [call EXCEPT ![r] =
                          [op |-> "updatePedido", id |-> id, dto |-> dto]]
            /\ local' = [local EXCEPT ![r] =
                           [existe |-> TRUE, estado |-> pedidos[id].estado,
                            total |-> pedidos[id].total,
                            direccionEnvio |-> pedidos[id].direccionEnvio,
                            metodoPago |-> pedidos[id].metodoPago,
                            referenciaPago |-> pedidos[id].referenciaPago,
                            items |-> <<>>]]
            /\ pc' = [pc EXCEPT ![r] = "update_map"]
            /\ result' = result
    /\ UNCHANGED <<dbVars, entVars, prodVars, user>>

\* mapToEntity: SELECT * FROM pedido_items WHERE pedido_id = ?; then the
\* controller's setters run on the entity
UpdatePedido_mapToEntity(r) ==
    /\ pc[r] = "update_map"
    /\ local' = [local EXCEPT ![r] =
                   AplicarDTO([@ EXCEPT !.items = pedido_items[call[r].id]], call[r].dto)]
    /\ pc' = [pc EXCEPT ![r] = "update_commit"]
    /\ UNCHANGED <<dbVars, call, result, entVars, prodVars, user>>

\* repository update: UPDATE pedidos ... WHERE id = ?; DELETE FROM
\* pedido_items; INSERT per item; commit
UpdatePedido_update(r) ==
    /\ pc[r] = "update_commit"
    /\ pedidos' = IF Existe(pedidos, call[r].id)
                  THEN [pedidos EXCEPT ![call[r].id] = RowOf(local[r])]
                  ELSE pedidos
    /\ pedido_items' = [pedido_items EXCEPT ![call[r].id] = local[r].items]
    /\ result' = [result EXCEPT ![r] = Exito(local[r].referenciaPago)]
    /\ local' = [local EXCEPT ![r] = NoPedido]
    /\ call' = [call EXCEPT ![r] = [op |-> "updatePedido", id |-> call[r].id]]
    /\ pc' = [pc EXCEPT ![r] = "done"]
    /\ UNCHANGED <<insertId, entVars, prodVars, user>>

UpdatePedido(r) ==
    \/ \E id \in Ids, dto \in UpdatePedidoDTOs : UpdatePedido_findById(r, id, dto)
    \/ UpdatePedido_mapToEntity(r)
    \/ UpdatePedido_update(r)

\* ------------------------------------------------ PedidoService.deletePedido
\* repository delete: DELETE FROM pedido_items; DELETE FROM pedidos; commit
DeletePedido(r, id) ==
    /\ pc[r] = "idle"
    /\ call' = [call EXCEPT ![r] = [op |-> "deletePedido", id |-> id]]
    /\ pedidos' = [pedidos EXCEPT ![id] = NoRow]
    /\ pedido_items' = [pedido_items EXCEPT ![id] = <<>>]
    /\ result' = [result EXCEPT ![r] = Exito(NoRef)]
    /\ pc' = [pc EXCEPT ![r] = "done"]
    /\ UNCHANGED <<insertId, local, entVars, prodVars, user>>

\* --------------------------------------------------------- entity Pedido
\* line items a caller can hand to the constructor or to addItem: the
\* subtotal is a field of its own, right or off by one
Items ==
    {it \in [productoId : 1..MaxProducto, cantidad : 1..MaxCantidad,
             precioUnitario : 1..MaxPrecio,
             subtotal : 1..(MaxCantidad * MaxPrecio + 1)] :
        \/ it.subtotal = it.cantidad * it.precioUnitario
        \/ it.subtotal = it.cantidad * it.precioUnitario + 1}

ItemSeqs == UNION {[1..n -> Items] : n \in 0..(MaxItems - 1)}

\* new Pedido(props): every field is taken from props as given
Constructor(props) ==
    [estado |-> IF props.estado = "" THEN PENDIENTE ELSE props.estado,
     total |-> props.total, direccionEnvio |-> props.direccionEnvio,
     metodoPago |-> props.metodoPago, referenciaPago |-> props.referenciaPago,
     items |-> props.items]

\* this.items.push(item); this.recalcularTotal()
addItem(p, item) ==
    [p EXCEPT !.items = Append(@, item),
              !.total = recalcularTotal(Append(p.items, item))]

removeItemPrimero(p, productoId) ==
    LET i == IF \E k \in 1..Len(p.items) : p.items[k].productoId = productoId
             THEN CHOOSE k \in 1..Len(p.items) :
                     /\ p.items[k].productoId = productoId
                     /\ \A j \in 1..(k - 1) : p.items[j].productoId # productoId
             ELSE 0
        resto == IF i = 0 THEN p.items
                 ELSE SubSeq(p.items, 1, i - 1) \o SubSeq(p.items, i + 1, Len(p.items))
    IN [p EXCEPT !.items = resto, !.total = recalcularTotal(resto)]

\* this.items = this.items.filter(item => item.productoId !== productoId)
removeItem(p, productoId) ==
    LET resto == SelectSeq(p.items, LAMBDA it : it.productoId # productoId) IN
    [p EXCEPT !.items = resto, !.total = recalcularTotal(resto)]

\* this.items.find(item => item.productoId === productoId): index, 0 if none
Find(items, productoId) ==
    IF \E i \in 1..Len(items) : items[i].productoId = productoId
    THEN CHOOSE i \in 1..Len(items) :
            /\ items[i].productoId = productoId
            /\ \A j \in 1..(i - 1) : items[j].productoId # productoId
    ELSE 0

updateItemCantidadSinSubtotal(p, productoId, cantidad) ==
    LET i == Find(p.items, productoId) IN
    IF i = 0 THEN p
    ELSE LET nuevos == [p.items EXCEPT ![i].cantidad = cantidad]
         IN [p EXCEPT !.items = nuevos, !.total = recalcularTotal(nuevos)]

\* if (item) { item.cantidad = cantidad; item.subtotal = precioUnitario *
\* cantidad; this.recalcularTotal() }
updateItemCantidad(p, productoId, cantidad) ==
    LET i == Find(p.items, productoId) IN
    IF i = 0 THEN p
    ELSE LET nuevos == [p.items EXCEPT ![i].cantidad = cantidad,
                                       ![i].subtotal = p.items[i].precioUnitario * cantidad]
         IN [p EXCEPT !.items = nuevos, !.total = recalcularTotal(nuevos)]

AddItem(item) ==
    /\ Len(pedido.items) < MaxItems
    /\ pedido' = addItem(pedido, item)
    /\ lastCall' = "addItem"
    /\ UNCHANGED <<dbVars, reqVars, prodVars, user>>

RemoveItem(productoId) ==
    /\ pedido' = removeItem(pedido, productoId)
    /\ lastCall' = "removeItem"
    /\ UNCHANGED <<dbVars, reqVars, prodVars, user>>

UpdateItemCantidad(productoId, cantidad) ==
    /\ pedido' = updateItemCantidad(pedido, productoId, cantidad)
    /\ lastCall' = "updateItemCantidad"
    /\ UNCHANGED <<dbVars, reqVars, prodVars, user>>

\* set setTotal(total) { this.total = total }
SetTotal(total) ==
    /\ pedido' = [pedido EXCEPT !.total = total]
    /\ lastCall' = "setTotal"
    /\ UNCHANGED <<dbVars, reqVars, prodVars, user>>

\* set setEstado(estado) { this.estado = estado }
SetEstado(estado) ==
    /\ pedido' = [pedido EXCEPT !.estado = estado]
    /\ lastCall' = "setEstado"
    /\ UNCHANGED <<dbVars, reqVars, prodVars, user>>

\* set setReferenciaPago(referenciaPago) { this.referenciaPago = ... }
SetReferenciaPago(referenciaPago) ==
    /\ pedido' = [pedido EXCEPT !.referenciaPago = referenciaPago]
    /\ lastCall' = "setReferenciaPago"
    /\ UNCHANGED <<dbVars, reqVars, prodVars, user>>

\* ------------------------------------------------- the entity Producto
\* Only the field stock is modelled; the other fields have plain setters
\* that never read or write it.

\* constructor(props) { ...; this.stock = props.stock; ... }
ConstructorProducto(props) == [stock |-> props.stock]

\* set setStock(stock) { this.stock = stock }
setStock(p, stock) == [p EXCEPT !.stock = stock]

\* decrementarStock throws when cantidad <= 0 or this.stock < cantidad
DecrementarStockLanza(p, cantidad) == cantidad <= 0 \/ p.stock < cantidad

decrementarStock(p, cantidad) ==
    IF DecrementarStockLanza(p, cantidad) THEN p
    ELSE [p EXCEPT !.stock = p.stock - cantidad]

\* incrementarStock throws when cantidad <= 0
incrementarStock(p, cantidad) ==
    IF cantidad <= 0 THEN p ELSE [p EXCEPT !.stock = p.stock + cantidad]

SetStock(stock) ==
    /\ producto' = setStock(producto, stock)
    /\ lastCall' = "setStock"
    /\ UNCHANGED <<dbVars, reqVars, pedido, productos, cache, user>>

DecrementarStock(cantidad) ==
    /\ producto' = decrementarStock(producto, cantidad)
    /\ lastCall' = IF DecrementarStockLanza(producto, cantidad)
                   THEN "decrementarStock: Error" ELSE "decrementarStock"
    /\ UNCHANGED <<dbVars, reqVars, pedido, productos, cache, user>>

IncrementarStock(cantidad) ==
    /\ producto.stock + cantidad <= MaxStock
    /\ producto' = incrementarStock(producto, cantidad)
    /\ lastCall' = IF cantidad <= 0
                   THEN "incrementarStock: Error" ELSE "incrementarStock"
    /\ UNCHANGED <<dbVars, reqVars, pedido, productos, cache, user>>

\* ------------------------------------- the table productos and the cache
ProdIds == 1..MaxProducto
Categorias == {"mantas", "trenzas"}
Nombres == {"a", "b"}

\* a row of productos that does not exist
NoProducto == [existe |-> FALSE]
\* cacheService.get(key) returns null: nothing stored under the key
NoCache == [hit |-> FALSE]

\* the table with its AUTO_INCREMENT counter
ProductosVacia ==
    [rows |-> [id \in ProdIds |-> NoProducto], insertId |-> 1]

\* private cache: Map<string, ...> = new Map(), by key: 'all_productos',
\* `producto_${id}` and `productos_categoria_${categoria}`
CacheVacia ==
    [all |-> NoCache,
     producto |-> [id \in ProdIds |-> NoCache],
     categoria |-> [c \in Categorias |-> NoCache]]

ProductoFijo == [stock |-> 0]

InitProdFija ==
    /\ producto = ProductoFijo
    /\ productos = ProductosVacia
    /\ cache = CacheVacia

\* ------------------------------------------------- initial states
ItemFijo == [productoId |-> 1, cantidad |-> 1, precioUnitario |-> 1, subtotal |-> 1]

PedidoFijo ==
    [estado |-> PENDIENTE, total |-> 0, direccionEnvio |-> "dir0",
     metodoPago |-> STRIPE, referenciaPago |-> NoRef, items |-> <<>>]

\* req.user.role of the decoded token of each request; only the routes
\* look at it
Roles == {"admin", "usuario"}

InitReqs ==
    /\ user = [r \in Reqs |-> "admin"]
    /\ pc = [r \in Reqs |-> "idle"]
    /\ call = [r \in Reqs |-> NoCall]
    /\ local = [r \in Reqs |-> NoPedido]
    /\ result = [r \in Reqs |-> NoResult]

InitEntFija ==
    /\ pedido = PedidoFijo
    /\ lastCall = "constructor"
    /\ InitProdFija

\* every order is persisted pending, as create left it, with no reference
InitPago ==
    /\ \E ms \in [Ids -> MetodoPago] :
          pedidos = [id \in Ids |-> Row(PENDIENTE, 1, "dir0", ms[id], NoRef)]
    /\ pedido_items = [id \in Ids |-> <<ItemFijo>>]
    /\ insertId = MaxPedidos + 1
    /\ InitReqs
    /\ InitEntFija

NextPago == \E r \in Reqs : ProcesarPago(r)

\* concurrent settlements of persisted pending orders, nothing else running
SpecPago == InitPago /\ [][NextPago]_vars

\* request bodies of POST /: one line item each, with a cantidad the
\* decorators allow or not and a subtotal that matches it or not
DTOItems ==
    [productoId : {1}, cantidad : 0..MaxCantidad, precioUnitario : {1}, subtotal : {1}]

CreatePedidoDTOs ==
    {[direccionEnvio |-> "dir0", metodoPago |-> m, referenciaPago |-> ref,
      items |-> <<it>>] :
        m \in MetodoPago, ref \in RefsCliente \cup {NoRef}, it \in DTOItems}

\* the tables are empty after initDatabase
Init ==
    /\ pedidos = [id \in Ids |-> NoRow]
    /\ pedido_items = [id \in Ids |-> <<>>]
    /\ insertId = 1
    /\ InitReqs
    /\ InitEntFija

Next ==
    \E r \in Reqs :
        \/ \E dto \in CreatePedidoDTOs, forbidUnknownValues \in BOOLEAN :
              CreatePedido(r, dto, forbidUnknownValues)
        \/ \E id \in Ids, estado \in EstadoPedido : UpdateEstadoPedido(r, id, estado)
        \/ UpdatePedido(r)
        \/ \E id \in Ids : DeletePedido(r, id)
        \/ ProcesarPago(r)

\* requests of every kind running concurrently against the two tables
Spec == Init /\ [][Next]_vars

\* one settlement at a time: a call starts when no other is in flight
ProcesarPagoSeq(r) ==
    \/ /\ \A q \in Reqs : pc[q] \in {"idle", "done"}
       /\ \E id \in Ids, paymentInfo \in PaymentInfos, nonce \in 1..MaxNonce :
             ProcesarPago_findById(r, id, paymentInfo, nonce)
    \/ ProcesarPago_updateReferenciaPago(r)
    \/ ProcesarPago_updateEstado(r)
    \/ ProcesarPago_return(r)

NextSeq == \E r \in Reqs : ProcesarPagoSeq(r)

\* sequential settlements of persisted pending orders
SpecSeq == InitPago /\ [][NextSeq]_vars

InitDBVacia ==
    /\ pedidos = [id \in Ids |-> NoRow]
    /\ pedido_items = [id \in Ids |-> <<>>]
    /\ insertId = 1
    /\ InitReqs

\* a Pedido right after new Pedido(props)
InitPedido ==
    /\ \E items \in ItemSeqs, total \in 0..MaxTotal :
          pedido = Constructor([estado |-> "", total |-> total,
                                direccionEnvio |-> "dir0", metodoPago |-> STRIPE,
                                referenciaPago |-> NoRef, items |-> items])
    /\ lastCall = "constructor"
    /\ InitDBVacia
    /\ InitProdFija

NextItems ==
    \/ \E item \in Items : AddItem(item)
    \/ \E productoId \in 1..MaxProducto : RemoveItem(productoId)
    \/ \E productoId \in 1..MaxProducto, cantidad \in 0..MaxCantidad :
          UpdateItemCantidad(productoId, cantidad)

\* the three item operations on one Pedido
SpecItems == InitPedido /\ [][NextItems]_vars

NextPedido ==
    \/ NextItems
    \/ \E total \in 0..MaxTotal : SetTotal(total)
    \/ \E estado \in {PENDIENTE, PAGADO} : SetEstado(estado)
    \/ \E ref \in RefsCliente : SetReferenciaPago(ref)

\* the item operations and the setters on one Pedido
SpecPedido == InitPedido /\ [][NextPedido]_vars

\* ------------------------------------- repository transactions, statement by
\* statement.  create, update and delete run beginTransaction, their
\* statements and commit on one connection; a statement executed in an open
\* transaction is buffered in the connection (local[r].tx) and reaches the
\* tables at commit.  The first statement that addresses an order id locks
\* it until commit or rollback; a lock wait that ends in a deadlock or a
\* timeout is one of the failures of Tx_rollback.
ErrAlmacen == "error de almacenamiento"

ItemDos == [productoId |-> 2, cantidad |-> 1, precioUnitario |-> 1, subtotal |-> 1]

\* the Pedido objects handed to create and update
PedidosTx ==
    {[estado |-> e, total |-> SumSubtotal(items), direccionEnvio |-> "dir0",
      metodoPago |-> STRIPE, referenciaPago |-> NoRef, items |-> items] :
        e \in {PENDIENTE, ENVIADO},
        items \in {<<>>, <<ItemFijo>>, <<ItemFijo, ItemDos>>}}

\* positions of a request between its first statement and its commit
PcTx == {"tx_create_items", "tx_update_delete", "tx_update_items",
         "tx_delete_pedidos", "tx_delete_commit"}

\* no other connection holds the lock of this order id
Libre(r, id) == \A q \in Reqs \ {r} : ~(pc[q] \in PcTx /\ local[q].tx.id = id)

\* connection.commit(): the buffered statements reach the tables together
commitPedidos(tx) ==
    IF tx.filaEscrita THEN [pedidos EXCEPT ![tx.id] = tx.fila] ELSE pedidos

commitItems(tx) ==
    [pedido_items EXCEPT ![tx.id] = (IF tx.itemsBorrados THEN <<>> ELSE @) \o tx.items]

\* create: beginTransaction; INSERT INTO pedidos; pedidoId = insertId.  The
\* AUTO_INCREMENT value is consumed whether or not the transaction commits.
Tx_create_insertPedido(r, p) ==
    /\ pc[r] = "idle"
    /\ insertId <= MaxPedidos
    /\ call' = [call EXCEPT ![r] = [op |-> "create", id |-> insertId]]
    /\ local' = [local EXCEPT ![r] =
                   [existe |-> TRUE, pedido |-> p,
                    tx |-> [id |-> insertId, filaEscrita |-> TRUE, fila |-> RowOf(p),
                            itemsBorrados |-> FALSE, items |-> <<>>]]]
    /\ insertId' = insertId + 1
    /\ pc' = [pc EXCEPT ![r] = "tx_create_items"]
    /\ UNCHANGED <<pedidos, pedido_items, result, entVars, prodVars, user>>

\* for (const item of pedido.getItems) INSERT INTO pedido_items ...
Tx_insertItem(r) ==
    /\ pc[r] \in {"tx_create_items", "tx_update_items"}
    /\ Len(local[r].tx.items) < Len(local[r].pedido.items)
    /\ local' = [local EXCEPT ![r].tx.items =
                   Append(@, local[r].pedido.items[Len(@) + 1])]
    /\ UNCHANGED <<dbVars, pc, call, result, entVars, prodVars, user>>

\* connection.commit() of create and update, after the last INSERT
Tx_commit(r) ==
    /\ pc[r] \in {"tx_create_items", "tx_update_items"}
    /\ Len(local[r].tx.items) = Len(local[r].pedido.items)
    /\ pedidos' = commitPedidos(local[r].tx)
    /\ pedido_items' = commitItems(local[r].tx)
    /\ pc' = [pc EXCEPT ![r] = "tx_find"]
    /\ UNCHANGED <<insertId, call, local, result, entVars, prodVars, user>>

\* return this.findById(id): the read after the commit, which can throw as
\* any statement can
Tx_findById(r, ok) ==
    /\ pc[r] = "tx_find"
    /\ result' = [result EXCEPT ![r] = IF ok THEN Exito(NoRef) ELSE Fallo(ErrAlmacen)]
    /\ local' = [local EXCEPT ![r] = NoPedido]
    /\ pc' = [pc EXCEPT ![r] = "done"]
    /\ UNCHANGED <<dbVars, call, entVars, prodVars, user>>

\* the caller of update holds a Pedido that findById returned for this id
Tx_update_findById(r, id, p) ==
    /\ pc[r] = "idle"
    /\ Existe(pedidos, id)
    /\ call' = [call EXCEPT ![r] = [op |-> "update", id |-> id]]
    /\ local' = [local EXCEPT ![r] = [existe |-> TRUE, pedido |-> p, tx |-> [id |-> 0]]]
    /\ pc' = [pc EXCEPT ![r] = "tx_update_pedidos"]
    /\ UNCHANGED <<dbVars, result, entVars, prodVars, user>>

\* update: beginTransaction; UPDATE pedidos SET ... WHERE id = ?  (no look
\* at the number of rows matched)
Tx_update_updatePedidos(r) ==
    /\ pc[r] = "tx_update_pedidos"
    /\ Libre(r, call[r].id)
    /\ local' = [local EXCEPT ![r].tx =
                   [id |-> call[r].id, filaEscrita |-> Existe(pedidos, call[r].id),
                    fila |-> RowOf(local[r].pedido), itemsBorrados |-> FALSE,
                    items |-> <<>>]]
    /\ pc' = [pc EXCEPT ![r] = "tx_update_delete"]
    /\ UNCHANGED <<dbVars, call, result, entVars, prodVars, user>>

\* DELETE FROM pedido_items WHERE pedido_id = ?
Tx_update_deleteItems(r) ==
    /\ pc[r] = "tx_update_delete"
    /\ local' = [local EXCEPT ![r].tx.itemsBorrados = TRUE]
    /\ pc' = [pc EXCEPT ![r] = "tx_update_items"]
    /\ UNCHANGED <<dbVars, call, result, entVars, prodVars, user>>

\* delete: beginTransaction; DELETE FROM pedido_items WHERE pedido_id = ?
Tx_delete_deleteItems(r, id) ==
    /\ pc[r] = "idle"
    /\ Libre(r, id)
    /\ call' = [call EXCEPT ![r] = [op |-> "delete", id |-> id]]
    /\ local' = [local EXCEPT ![r] =
                   [existe |-> TRUE, pedido |-> NoPedido,
                    tx |-> [id |-> id, filaEscrita |-> FALSE, fila |-> NoRow,
                            itemsBorrados |-> TRUE, items |-> <<>>]]]
    /\ pc' = [pc EXCEPT ![r] = "tx_delete_pedidos"]
    /\ UNCHANGED <<dbVars, result, entVars, prodVars, user>>

\* DELETE FROM pedidos WHERE id = ?
Tx_delete_deletePedidos(r) ==
    /\ pc[r] = "tx_delete_pedidos"
    /\ local' = [local EXCEPT ![r].tx.filaEscrita = TRUE]
    /\ pc' = [pc EXCEPT ![r] = "tx_delete_commit"]
    /\ UNCHANGED <<dbVars, call, result, entVars, prodVars, user>>

\* connection.commit() of delete
Tx_delete_commit(r) ==
    /\ pc[r] = "tx_delete_commit"
    /\ pedidos' = commitPedidos(local[r].tx)
    /\ pedido_items' = commitItems(local[r].tx)
    /\ result' = [result EXCEPT ![r] = Exito(NoRef)]
    /\ local' = [local EXCEPT ![r] = NoPedido]
    /\ pc' = [pc EXCEPT ![r] = "done"]
    /\ UNCHANGED <<insertId, call, entVars, prodVars, user>>

\* catch: a statement or the commit threw; connection.rollback(); throw
Tx_rollback(r) ==
    /\ pc[r] \in PcTx
    /\ result' = [result EXCEPT ![r] = Fallo(ErrAlmacen)]
    /\ local' = [local EXCEPT ![r] = NoPedido]
    /\ pc' = [pc EXCEPT ![r] = "done"]
    /\ UNCHANGED <<dbVars, call, entVars, prodVars, user>>

NextTx ==
    \E r \in Reqs :
        \/ \E p \in PedidosTx : p.estado = PENDIENTE /\ Tx_create_insertPedido(r, p)
        \/ \E id \in Ids, p \in PedidosTx : Tx_update_findById(r, id, p)
        \/ Tx_update_updatePedidos(r)
        \/ Tx_update_deleteItems(r)
        \/ Tx_insertItem(r)
        \/ Tx_commit(r)
        \/ \E ok \in BOOLEAN : Tx_findById(r, ok)
        \/ \E id \in Ids : Tx_delete_deleteItems(r, id)
        \/ Tx_delete_deletePedidos(r)
        \/ Tx_delete_commit(r)
        \/ Tx_rollback(r)

InitTx ==
    /\ InitDBVacia
    /\ InitEntFija

\* create, update and delete of the repository, running concurrently
SpecTx == InitTx /\ [][NextTx]_vars

\* ------------------------------------ storage failures inside procesarPago
\* updateReferenciaPago and updateEstado each run one autocommitted UPDATE
\* and then findById.  Either statement can throw: the UPDATE before it
\* changes the row, or the findById after the UPDATE is committed.
\* procesarPago's catch turns the error into { success: false, error }.
ProcesarPago_updateFalla(r, hecho) ==
    /\ pc[r] \in {"pago_referencia", "pago_estado"}
    /\ pedidos' =
          IF ~hecho THEN pedidos
          ELSE IF pc[r] = "pago_referencia"
               THEN updateReferenciaPago(pedidos, call[r].id, local[r].referenciaPago)
               ELSE updateEstado(pedidos, call[r].id, EstadoTrasPago)
    /\ result' = [result EXCEPT ![r] = Fallo(ErrAlmacen)]
    /\ local' = [local EXCEPT ![r] = NoPedido]
    /\ call' = [call EXCEPT ![r] = [op |-> "procesarPago", id |-> call[r].id]]
    /\ pc' = [pc EXCEPT ![r] = "done"]
    /\ UNCHANGED <<pedido_items, insertId, entVars, prodVars, user>>

NextFalla ==
    \E r \in Reqs :
        \/ ProcesarPagoSeq(r)
        \/ \E hecho \in BOOLEAN : ProcesarPago_updateFalla(r, hecho)

\* sequential settlements of persisted pending orders on a store whose
\* statements can fail
SpecFalla == InitPago /\ [][NextFalla]_vars

\* ------------------------------------------------ creation requests alone
\* a body whose line item has a negative precioUnitario
PrecioNegativo ==
    [direccionEnvio |-> "dir0", metodoPago |-> STRIPE, referenciaPago |-> NoRef,
     items |-> <<[productoId |-> 1, cantidad |-> 1, precioUnitario |-> -1,
                  subtotal |-> 1]>>]

NextCreate ==
    \E r \in Reqs, dto \in CreatePedidoDTOs \cup {PrecioNegativo},
       forbidUnknownValues \in BOOLEAN :
        CreatePedido(r, dto, forbidUnknownValues)

\* POST / requests against the empty tables
SpecCreate == Init /\ [][NextCreate]_vars

\* a Producto right after new Producto(props) with props.stock >= 0
InitProducto ==
    /\ \E stock \in 0..MaxStock : producto = ConstructorProducto([stock |-> stock])
    /\ productos = ProductosVacia
    /\ cache = CacheVacia
    /\ pedido = PedidoFijo
    /\ lastCall = "constructor"
    /\ InitDBVacia

NextProducto ==
    \/ \E stock \in -1..MaxStock : SetStock(stock)
    \/ \E cantidad \in -1..MaxStock + 1 : DecrementarStock(cantidad)
    \/ \E cantidad \in -1..MaxStock : IncrementarStock(cantidad)

\* the stock operations on one Producto
SpecProducto == InitProducto /\ [][NextProducto]_vars

\* ------------------------------------------------ the order routes
\* createPedidoRouter: every route runs verifyToken, which sets req.user to
\* the decoded token; the requests modelled carry a valid token.
ErrRol == "no tiene el rol requerido"

\* checkRole(roles): next() only when user.role is one of roles
checkRole(roles, u) == u \in roles

\* any middleware answering 403: the handler never runs
Ruta_403(r, op) ==
    /\ pc[r] = "idle"
    /\ call' = [call EXCEPT ![r] = [op |-> op, id |-> 0]]
    /\ result' = [result EXCEPT ![r] = Fallo(ErrRol)]
    /\ pc' = [pc EXCEPT ![r] = "done"]
    /\ UNCHANGED <<dbVars, local, entVars, prodVars, user>>

\* bodies of PUT /:id sent through the router: a new address, a new state
RutaDTOs ==
    {[NoDTO EXCEPT !.direccionEnvio = "dir1"], [NoDTO EXCEPT !.estado = ENVIADO]}

\* router.put('/:id', verifyToken, updatePedido)
Ruta_put(r) ==
    \/ \E id \in Ids, dto \in RutaDTOs : UpdatePedido_findById(r, id, dto)
    \/ UpdatePedido_mapToEntity(r)
    \/ UpdatePedido_update(r)

\* the card payload of the documented Stripe body
PagoTarjeta == [referencia |-> NoRef, comprobante |-> NoRef, token |-> "tok_visa"]

\* router.post('/:id/pago', verifyToken, procesarPago)
Ruta_postPago(r) ==
    \/ \E id \in Ids : ProcesarPago_findById(r, id, PagoTarjeta, 1)
    \/ ProcesarPago_updateReferenciaPago(r)
    \/ ProcesarPago_updateEstado(r)
    \/ ProcesarPago_return(r)

\* router.patch('/:id/estado', verifyToken, checkRole(['admin']),
\* updateEstado).  The handler answers 404 when getPedidoById finds no
\* order; that read and the UPDATE are one step here: a delete between the
\* two leaves the UPDATE without a row to change.
Ruta_patchEstado(r, id, estado) ==
    IF ~checkRole({"admin"}, user[r]) THEN Ruta_403(r, "updateEstado")
    ELSE IF ~Existe(pedidos, id)
    THEN /\ pc[r] = "idle"
         /\ call' = [call EXCEPT ![r] = [op |-> "updateEstado", id |-> id]]
         /\ result' = [result EXCEPT ![r] = Fallo(ErrNoEncontrado)]
         /\ pc' = [pc EXCEPT ![r] = "done"]
         /\ UNCHANGED <<dbVars, local, entVars, prodVars, user>>
    ELSE UpdateEstadoPedido(r, id, estado)

\* router.delete('/:id', verifyToken, checkRole(['admin']), deletePedido)
Ruta_delete(r, id) ==
    IF ~checkRole({"admin"}, user[r]) THEN Ruta_403(r, "deletePedido")
    ELSE DeletePedido(r, id)

NextRutas ==
    \E r \in Reqs :
        \/ Ruta_put(r)
        \/ Ruta_postPago(r)
        \/ \E id \in Ids, estado \in {ENTREGADO, CANCELADO} :
              Ruta_patchEstado(r, id, estado)
        \/ \E id \in Ids : Ruta_delete(r, id)

\* persisted pending orders; each request comes from an admin or from an
\* authenticated user without the admin role
InitRutas ==
    /\ pedidos = [id \in Ids |-> Row(PENDIENTE, 1, "dir0", STRIPE, NoRef)]
    /\ pedido_items = [id \in Ids |-> <<ItemFijo>>]
    /\ insertId = MaxPedidos + 1
    /\ user \in [Reqs -> Roles]
    /\ pc = [r \in Reqs |-> "idle"]
    /\ call = [r \in Reqs |-> NoCall]
    /\ local = [r \in Reqs |-> NoPedido]
    /\ result = [r \in Reqs |-> NoResult]
    /\ InitEntFija

\* the state-changing order routes behind their middlewares
SpecRutas == InitRutas /\ [][NextRutas]_vars

\* ------------------------------------------- ProductoService and its cache
\* A product is its id, nombre and categoria; the other columns travel with
\* them unchanged.  A list of products is the set of its elements.

\* MySQLProductoRepository.mapToEntity(row)
mapToEntityProducto(id, row) ==
    [id |-> id, nombre |-> row.nombre, categoria |-> row.categoria]

\* SELECT * FROM productos
findAll(tabla) ==
    {mapToEntityProducto(id, tabla.rows[id]) : id \in {i \in ProdIds : tabla.rows[i].existe}}

\* SELECT * FROM productos WHERE id = ?  (null when no row)
findByIdProducto(tabla, id) ==
    IF tabla.rows[id].existe THEN mapToEntityProducto(id, tabla.rows[id]) ELSE NoProducto

\* SELECT * FROM productos WHERE categoria = ?
findByCategoria(tabla, categoria) ==
    {p \in findAll(tabla) : p.categoria = categoria}

\* productoToObject, JSON.stringify, JSON.parse and new Producto(p): the
\* fields come back as they went in
productoToObject(p) == [id |-> p.id, nombre |-> p.nombre, categoria |-> p.categoria]

\* cacheService.set(key, value, 300) under each of the three kinds of key
Guardado(v) == [hit |-> TRUE, value |-> v]

\* what a get operation returns to its caller
Devuelve(v) == [success |-> TRUE, referenciaPago |-> NoRef, error |-> "", value |-> v]

\* cacheService.get(key): on a hit the operation returns the cached value
\* and touches nothing else; on a miss it goes on to the repository
Get_cache(r, op, arg, entrada) ==
    /\ pc[r] = "idle"
    /\ IF entrada.hit
       THEN /\ call' = [call EXCEPT ![r] = [op |-> op, id |-> arg]]
            /\ result' = [result EXCEPT ![r] = Devuelve(entrada.value)]
            /\ pc' = [pc EXCEPT ![r] = "done"]
       ELSE /\ call' = [call EXCEPT ![r] = [op |-> op, id |-> arg]]
            /\ result' = result
            /\ pc' = [pc EXCEPT ![r] = "get_find"]
    /\ UNCHANGED <<dbVars, local, entVars, prodVars, user>>

GetAllProductos_cache(r) == Get_cache(r, "getAllProductos", 0, cache.all)
GetProductoById_cache(r, id) == Get_cache(r, "getProductoById", id, cache.producto[id])
GetProductosByCategoria_cache(r, categoria) ==
    Get_cache(r, "getProductosByCategoria", categoria, cache.categoria[categoria])

\* the query of the repository, answered from the table as it is now
Get_find(r) ==
    /\ pc[r] = "get_find"
    /\ local' = [local EXCEPT ![r] =
                   [existe |-> TRUE,
                    value |-> CASE call[r].op = "getAllProductos" -> findAll(productos)
                                [] call[r].op = "getProductoById" ->
                                      findByIdProducto(productos, call[r].id)
                                [] OTHER -> findByCategoria(productos, call[r].id)]]
    /\ pc' = [pc EXCEPT ![r] = "get_set"]
    /\ UNCHANGED <<dbVars, call, result, entVars, prodVars, user>>

\* cacheService.set of what the query returned, then return it.
\* getProductoById stores nothing when the product was not found.
Get_set(r) ==
    /\ pc[r] = "get_set"
    /\ cache' =
          CASE call[r].op = "getAllProductos" ->
                  [cache EXCEPT !.all =
                      Guardado({productoToObject(p) : p \in local[r].value})]
            [] call[r].op = "getProductoById" ->
                  IF local[r].value = NoProducto THEN cache
                  ELSE [cache EXCEPT !.producto[call[r].id] =
                           Guardado(productoToObject(local[r].value))]
            [] OTHER ->
                  [cache EXCEPT !.categoria[call[r].id] =
                      Guardado({productoToObject(p) : p \in local[r].value})]
    /\ result' = [result EXCEPT ![r] = Devuelve(local[r].value)]
    /\ local' = [local EXCEPT ![r] = NoPedido]
    /\ pc' = [pc EXCEPT ![r] = "done"]
    /\ UNCHANGED <<dbVars, call, entVars, producto, productos, user>>

\* createProducto: productoRepository.save(producto) -- INSERT INTO productos
CreateProducto_save(r, nombre, categoria) ==
    /\ pc[r] = "idle"
    /\ productos.insertId <= MaxProducto
    /\ call' = [call EXCEPT ![r] = [op |-> "createProducto", id |-> productos.insertId]]
    /\ productos' = [productos EXCEPT
                       !.rows[productos.insertId] =
                           [existe |-> TRUE, nombre |-> nombre, categoria |-> categoria],
                       !.insertId = @ + 1]
    /\ pc' = [pc EXCEPT ![r] = "create_del"]
    /\ UNCHANGED <<dbVars, local, result, entVars, producto, cache, user>>

\* cacheService.del('all_productos'); return savedProducto
CreateProducto_del(r) ==
    /\ pc[r] = "create_del"
    /\ cache' = [cache EXCEPT !.all = NoCache]
    /\ result' = [result EXCEPT ![r] = Exito(NoRef)]
    /\ pc' = [pc EXCEPT ![r] = "done"]
    /\ UNCHANGED <<dbVars, call, local, entVars, producto, productos, user>>

\* updateProducto and deleteProducto: findById first, throw when not found
Escribir_findById(r, op, id, nombre, categoria) ==
    /\ pc[r] = "idle"
    /\ call' = [call EXCEPT ![r] = [op |-> op, id |-> id]]
    /\ IF findByIdProducto(productos, id) = NoProducto
       THEN /\ result' = [result EXCEPT ![r] = Fallo(ErrNoEncontrado)]
            /\ pc' = [pc EXCEPT ![r] = "done"]
            /\ local' = local
       ELSE /\ result' = result
            /\ pc' = [pc EXCEPT ![r] = "prod_write"]
            /\ local' = [local EXCEPT ![r] =
                           [existe |-> TRUE, nombre |-> nombre, categoria |-> categoria]]
    /\ UNCHANGED <<dbVars, entVars, prodVars, user>>

UpdateProducto_findById(r, id, nombre, categoria) ==
    Escribir_findById(r, "updateProducto", id, nombre, categoria)

DeleteProducto_findById(r, id) == Escribir_findById(r, "deleteProducto", id, "", "")

\* UPDATE productos SET ... WHERE id = ?  /  DELETE FROM productos WHERE id = ?
Escribir_tabla(r) ==
    /\ pc[r] = "prod_write"
    /\ productos' =
          IF ~productos.rows[call[r].id].existe THEN productos
          ELSE IF call[r].op = "deleteProducto"
          THEN [productos EXCEPT !.rows[call[r].id] = NoProducto]
          ELSE [productos EXCEPT !.rows[call[r].id] =
                   [existe |-> TRUE, nombre |-> local[r].nombre,
                    categoria |-> local[r].categoria]]
    /\ pc' = [pc EXCEPT ![r] = "prod_del"]
    /\ UNCHANGED <<dbVars, call, local, result, entVars, producto, cache, user>>

\* cacheService.del(`producto_${id}`); cacheService.del('all_productos').
\* Both run on the in-memory Map with no input or output in between.
Escribir_del(r) ==
    /\ pc[r] = "prod_del"
    /\ cache' = [cache EXCEPT !.producto[call[r].id] = NoCache, !.all = NoCache]
    /\ result' = [result EXCEPT ![r] = Exito(NoRef)]
    /\ local' = [local EXCEPT ![r] = NoPedido]
    /\ pc' = [pc EXCEPT ![r] = "done"]
    /\ UNCHANGED <<dbVars, call, entVars, producto, productos, user>>

\* an entry stored with ttl 300 is dropped by the first get after its expiry
Expira ==
    /\ \/ cache.all.hit /\ cache' = [cache EXCEPT !.all = NoCache]
       \/ \E id \in ProdIds :
             cache.producto[id].hit /\ cache' = [cache EXCEPT !.producto[id] = NoCache]
       \/ \E c \in Categorias :
             cache.categoria[c].hit /\ cache' = [cache EXCEPT !.categoria[c] = NoCache]
    /\ UNCHANGED <<dbVars, reqVars, entVars, producto, productos, user>>

NextCache ==
    \/ Expira
    \/ \E r \in Reqs :
            \/ GetAllProductos_cache(r)
            \/ \E id \in ProdIds : GetProductoById_cache(r, id)
            \/ \E categoria \in Categorias : GetProductosByCategoria_cache(r, categoria)
            \/ Get_find(r)
            \/ Get_set(r)
            \/ \E nombre \in {"a"}, categoria \in Categorias :
                  CreateProducto_save(r, nombre, categoria)
            \/ CreateProducto_del(r)
            \/ \E id \in ProdIds, categoria \in Categorias :
                  UpdateProducto_findById(r, id, "b", categoria)
            \/ \E id \in ProdIds : DeleteProducto_findById(r, id)
            \/ Escribir_tabla(r)
            \/ Escribir_del(r)

\* a process that starts with an empty cache on a table that is empty or
\* holds one product
InitCache ==
    /\ \/ productos = ProductosVacia
       \/ productos = [rows |-> [id \in ProdIds |->
                                    IF id = 1
                                    THEN [existe |-> TRUE, nombre |-> "a",
                                          categoria |-> "mantas"]
                                    ELSE NoProducto],
                       insertId |-> 2]
    /\ cache = CacheVacia
    /\ producto = ProductoFijo
    /\ pedido = PedidoFijo
    /\ lastCall = "constructor"
    /\ InitDBVacia

\* the product reads and writes of ProductoService, running concurrently
SpecCache == InitCache /\ [][NextCache]_vars

\* ------------------------------------------- repository findById, as a read
\* of its own next to the transactions of SpecTx.
\* SELECT * FROM pedidos WHERE id = ?; null when there is no row
FindById_select(r, id) ==
    /\ pc[r] = "idle"
    /\ call' = [call EXCEPT ![r] = [op |-> "findById", id |-> id]]
    /\ IF ~Existe(pedidos, id)
       THEN /\ result' = [result EXCEPT ![r] = Devuelve(NoPedido)]
            /\ pc' = [pc EXCEPT ![r] = "done"]
            /\ local' = local
       ELSE /\ local' = [local EXCEPT ![r] =
                           [existe |-> TRUE, estado |-> pedidos[id].estado,
                            total |-> pedidos[id].total,
                            direccionEnvio |-> pedidos[id].direccionEnvio,
                            metodoPago |-> pedidos[id].metodoPago,
                            referenciaPago |-> pedidos[id].referenciaPago]]
            /\ pc' = [pc EXCEPT ![r] = "find_map"]
            /\ result' = result
    /\ UNCHANGED <<dbVars, entVars, prodVars, user>>

\* mapToEntity(row): on a second connection, SELECT * FROM pedido_items
\* WHERE pedido_id = ?; return new Pedido({...row, items})
FindById_mapToEntity(r) ==
    /\ pc[r] = "find_map"
    /\ result' = [result EXCEPT ![r] =
                    Devuelve(Constructor(
                       [estado |-> local[r].estado, total |-> local[r].total,
                        direccionEnvio |-> local[r].direccionEnvio,
                        metodoPago |-> local[r].metodoPago,
                        referenciaPago |-> local[r].referenciaPago,
                        items |-> pedido_items[call[r].id]]))]
    /\ local' = [local EXCEPT ![r] = NoPedido]
    /\ pc' = [pc EXCEPT ![r] = "done"]
    /\ UNCHANGED <<dbVars, call, entVars, prodVars, user>>

NextLectura ==
    \/ NextTx
    \/ \E r \in Reqs :
          \/ \E id \in Ids : FindById_select(r, id)
          \/ FindById_mapToEntity(r)

\* findById running next to create, update and delete
SpecLectura == InitTx /\ [][NextLectura]_vars

\* ================================================================ claims
PagosHechos(id) ==
    {r \in Reqs : pc[r] = "done" /\ call[r].op = "procesarPago" /\ call[r].id = id}

PagosExitosos(id) == {r \in PagosHechos(id) : result[r].success}

PagosEnCurso(id) ==
    {r \in Reqs : pc[r] \notin {"idle", "done"} /\ call[r].op = "procesarPago"
                  /\ call[r].id = id}

\* C1: of the procesarPago calls made on one order that was persisted
\* pending, at most one returns success and every other returns the
\* not-pending failure; once they have all returned exactly one has
\* succeeded; and the order is then paid with the one reference the
\* successful call returned.
C1_SettlementIdempotency ==
    \A id \in Ids :
        /\ Cardinality(PagosExitosos(id)) <= 1
        /\ \A r \in PagosHechos(id) \ PagosExitosos(id) :
              result[r] = Fallo(ErrNoPendiente)
        /\ (PagosHechos(id) # {} /\ PagosEnCurso(id) = {})
              => Cardinality(PagosExitosos(id)) = 1
        /\ \A r \in PagosExitosos(id) :
              /\ pedidos[id].estado = PAGADO
              /\ pedidos[id].referenciaPago = result[r].referenciaPago

\* C2: no persisted state during or after procesarPago shows an order paid
\* with an empty payment reference, or pending with a non-empty one.
C2_AtomicPaidTransition ==
    \A id \in Ids :
        Existe(pedidos, id) =>
            /\ ~(pedidos[id].estado = PAGADO /\ pedidos[id].referenciaPago = NoRef)
            /\ ~(pedidos[id].estado = PENDIENTE /\ pedidos[id].referenciaPago # NoRef)

\* the legal-transition table of the order lifecycle
TransicionesLegales ==
    {<<PENDIENTE, PAGADO>>, <<PENDIENTE, CANCELADO>>, <<PAGADO, ENVIADO>>,
     <<ENVIADO, ENTREGADO>>, <<PAGADO, CANCELADO>>}

\* C3: an updateEstadoPedido call whose (current state, target state) pair
\* is outside the legal table fails with an invalid-transition error and
\* leaves the persisted order unchanged.
C3_TransitionLegality ==
    [][\A r \in Reqs :
          ( /\ pc[r] = "idle"
            /\ pc'[r] = "done"
            /\ call'[r].op = "updateEstadoPedido"
            /\ Existe(pedidos, call'[r].id)
            /\ <<pedidos[call'[r].id].estado, call'[r].estado>> \notin TransicionesLegales )
          => /\ ~result'[r].success
             /\ result'[r].error = "transicion invalida"
             /\ pedidos' = pedidos]_vars

\* C4: a persisted order changes from pending to paid only in the
\* updateEstado step of a procesarPago call on that order, the step that is
\* followed by the return of success.
C4_PaidOnlyBySettlement ==
    [][\A id \in Ids :
          ( /\ Existe(pedidos, id)
            /\ pedidos[id].estado = PENDIENTE
            /\ Existe(pedidos', id)
            /\ pedidos'[id].estado = PAGADO )
          => \E r \in Reqs :
                /\ call[r].op = "procesarPago"
                /\ call[r].id = id
                /\ pc[r] = "pago_estado"
                /\ pc'[r] = "pago_return"]_vars

\* C5: a procesarPago call that finds no order with its id, or finds the
\* order paid, shipped, delivered or cancelled, ends at once with
\* success = false, and the step changes no row of pedidos or pedido_items.
C5_NotPendingNoSideEffect ==
    [][\A r \in Reqs :
          ( /\ pc[r] = "idle"
            /\ call'[r].op = "procesarPago"
            /\ \/ ~Existe(pedidos, call'[r].id)
               \/ pedidos[call'[r].id].estado \in {PAGADO, ENVIADO, ENTREGADO, CANCELADO} )
          => /\ pc'[r] = "done"
             /\ ~result'[r].success
             /\ result'[r].error \in {ErrNoEncontrado, ErrNoPendiente}
             /\ pedidos' = pedidos
             /\ pedido_items' = pedido_items]_vars

\* C5 witness: a settlement was refused on an order that exists and is not
\* pending.
C5_Witness ==
    \E r \in Reqs :
        /\ pc[r] = "done"
        /\ call[r].op = "procesarPago"
        /\ result[r] = Fallo(ErrNoPendiente)
        /\ Existe(pedidos, call[r].id)
        /\ pedidos[call[r].id].estado \in {PAGADO, ENVIADO, ENTREGADO, CANCELADO}

\* C6: with settlements run one after another, once a procesarPago call on
\* an order has returned success the order is paid with the returned
\* reference, no later step changes its row, and every later call on it
\* returns the not-pending failure.
C6_DoubleSettlement ==
    [][\A id \in Ids :
          PagosExitosos(id) # {} =>
             /\ pedidos[id].estado = PAGADO
             /\ \A r \in PagosExitosos(id) :
                   pedidos[id].referenciaPago = result[r].referenciaPago
             /\ pedidos'[id] = pedidos[id]
             /\ \A r \in Reqs :
                   (pc[r] # "done" /\ pc'[r] = "done" /\ call'[r].id = id)
                      => result'[r] = Fallo(ErrNoPendiente)]_vars

\* C6 witness: a second call on an order returned not-pending after a first
\* call had settled it, and the order still carries the first reference.
C6_Witness ==
    \E r1, r2 \in Reqs :
        /\ r1 # r2
        /\ call[r1].id \in Ids
        /\ r1 \in PagosExitosos(call[r1].id)
        /\ r2 \in PagosHechos(call[r1].id)
        /\ result[r2] = Fallo(ErrNoPendiente)
        /\ pedidos[call[r1].id].estado = PAGADO
        /\ pedidos[call[r1].id].referenciaPago = result[r1].referenciaPago

\* C7: after every step a pending or cancelled order has no payment
\* reference, and a payment reference, once stored, is never overwritten.
C7_ReferenceOnlyWhenPaid ==
    [][\A id \in Ids :
          /\ ( /\ Existe(pedidos', id)
               /\ pedidos'[id].estado \in {PENDIENTE, CANCELADO} )
             => pedidos'[id].referenciaPago = NoRef
          /\ ( /\ Existe(pedidos, id)
               /\ Existe(pedidos', id)
               /\ pedidos[id].referenciaPago # NoRef )
             => pedidos'[id].referenciaPago = pedidos[id].referenciaPago]_vars

\* C8: after each addItem, removeItem or updateItemCantidad call the total
\* of the Pedido equals the sum of the subtotals of its line items.
C8_TotalInvariant ==
    lastCall \in {"addItem", "removeItem", "updateItemCantidad"}
        => pedido.total = SumSubtotal(pedido.items)

\* C9: every line item of the Pedido, from the moment it enters the order,
\* has subtotal = cantidad * precioUnitario.
C9_SubtotalInvariant ==
    \A i \in 1..Len(pedido.items) :
        pedido.items[i].subtotal
            = pedido.items[i].cantidad * pedido.items[i].precioUnitario

\* C10: in every state of a Pedido, right after construction and after any
\* setter or item call, total equals the sum of its line items' subtotals.
C10_TotalNotSettable == pedido.total = SumSubtotal(pedido.items)

\* a request commits the transaction of create or update in this step
CommitDe(r) == pc[r] \in {"tx_create_items", "tx_update_items"} /\ pc'[r] = "tx_find"

\* C11: repository create and update write the order row and its item rows
\* atomically: the tables change only at a commit, the commit of a create
\* or update leaves the order row of the write together with exactly the
\* items of the write, no committed state holds items without their order
\* row, and a write that fails before its commit leaves both tables as
\* they were.
C11_AtomicWrites ==
    [][/\ \A r \in Reqs :
             CommitDe(r) =>
                /\ pedido_items'[call[r].id] = local[r].pedido.items
                /\ Existe(pedidos', call[r].id)
                      => pedidos'[call[r].id] = RowOf(local[r].pedido)
                /\ call[r].op = "create" => Existe(pedidos', call[r].id)
       /\ \A id \in Ids :
             (pedidos'[id] # pedidos[id] \/ pedido_items'[id] # pedido_items[id])
                => \E r \in Reqs :
                      /\ call[r].id = id
                      /\ CommitDe(r) \/ (pc[r] = "tx_delete_commit" /\ pc'[r] = "done")
       /\ \A r \in Reqs :
             (pc[r] \in PcTx /\ pc'[r] = "done" /\ ~result'[r].success)
                => (pedidos' = pedidos /\ pedido_items' = pedido_items)
       /\ \A id \in Ids : pedido_items'[id] # <<>> => Existe(pedidos', id)]_vars

\* C12: for an order whose payment method is stripe or paypal, a
\* procesarPago call whose payment the gateway does not confirm returns
\* success = false with a reason and leaves the order pending without a
\* reference; the order becomes paid only in a call whose payment the
\* gateway confirmed.
C12_GatewayFailure ==
    [][/\ \A r \in Reqs :
             ( /\ pc[r] = "idle"
               /\ call'[r].op = "procesarPago"
               /\ Existe(pedidos, call'[r].id)
               /\ pedidos[call'[r].id].estado = PENDIENTE
               /\ pedidos[call'[r].id].metodoPago \in {STRIPE, PAYPAL}
               /\ pc'[r] # "done" )
             => confirmPayment(call'[r].paymentInfo)
       /\ \A id \in Ids :
             ( /\ pedidos[id].metodoPago \in {STRIPE, PAYPAL}
               /\ pedidos[id].estado = PENDIENTE
               /\ pedidos'[id].estado = PAGADO )
             => \E r \in Reqs :
                   /\ pc[r] = "pago_estado"
                   /\ call[r].id = id
                   /\ confirmPayment(call[r].paymentInfo)]_vars

\* C13: when updateReferenciaPago or updateEstado fails inside procesarPago,
\* the call returns success = false and the persisted order is as the call
\* found it: pending and without a payment reference.
C13_WriteFailure ==
    [][\A r \in Reqs :
          ( /\ pc[r] \in {"pago_referencia", "pago_estado"}
            /\ pc'[r] = "done" )
          => /\ ~result'[r].success
             /\ pedidos'[call[r].id].estado = PENDIENTE
             /\ pedidos'[call[r].id].referenciaPago = NoRef]_vars

\* C14: delivered and cancelled are terminal: once the persisted state of
\* an order is delivered or cancelled, no step of any request (an
\* updateEstadoPedido, the write of an updatePedido, a write of a
\* procesarPago that read the order earlier) changes that state.
C14_TerminalStates ==
    [][\A id \in Ids :
          ( /\ Existe(pedidos, id)
            /\ pedidos[id].estado \in {ENTREGADO, CANCELADO}
            /\ Existe(pedidos', id) )
          => pedidos'[id].estado = pedidos[id].estado]_vars

RECURSIVE SumCantidadPrecio(_)
SumCantidadPrecio(items) ==
    IF items = <<>> THEN 0
    ELSE SumCantidadPrecio(SubSeq(items, 1, Len(items) - 1))
            + items[Len(items)].cantidad * items[Len(items)].precioUnitario

\* C15: every createPedido request that is accepted leaves a persisted order
\* that is pending, has no payment reference, and whose total is the sum
\* over its persisted line items of cantidad * precioUnitario.
C15_CreationPostcondition ==
    [][\A r \in Reqs :
          ( /\ pc[r] = "idle"
            /\ call'[r].op = "createPedido"
            /\ result'[r].success )
          => /\ Existe(pedidos', call'[r].id)
             /\ pedidos'[call'[r].id].estado = PENDIENTE
             /\ pedidos'[call'[r].id].referenciaPago = NoRef
             /\ pedidos'[call'[r].id].total
                   = SumCantidadPrecio(pedido_items'[call'[r].id])]_vars

\* the proof-of-transfer reference a payload carries: the field procesarPago
\* reads, or the field the API documents for Transferencia
Comprobante(paymentInfo) ==
    IF paymentInfo.referencia # NoRef THEN paymentInfo.referencia
    ELSE paymentInfo.comprobante

\* C16: a procesarPago call on a pending order whose payment method is
\* transferencia goes through to success, leaves the order paid, and the
\* reference it stores and returns is the proof-of-transfer reference of
\* the payload whenever the payload carries one; a payload without one gets
\* a synthesized, non-empty reference.
C16_TransferReference ==
    [][\A r \in Reqs :
          /\ ( /\ pc[r] = "idle"
               /\ call'[r].op = "procesarPago"
               /\ Existe(pedidos, call'[r].id)
               /\ pedidos[call'[r].id].estado = PENDIENTE
               /\ pedidos[call'[r].id].metodoPago = TRANSFERENCIA )
             => pc'[r] = "pago_referencia"
          /\ ( /\ pc[r] = "pago_return"
               /\ pc'[r] = "done"
               /\ local[r].metodoPago = TRANSFERENCIA )
             => /\ result'[r].success
                /\ pedidos'[call[r].id].estado = PAGADO
                /\ pedidos'[call[r].id].referenciaPago = result'[r].referenciaPago
                /\ result'[r].referenciaPago # NoRef
                /\ Comprobante(call[r].paymentInfo) # NoRef
                      => result'[r].referenciaPago = Comprobante(call[r].paymentInfo)]_vars

C18_NoMatchNoChange ==
    [][\A p \in 1..MaxProducto :
          Find(pedido.items, p) = 0
          => /\ RemoveItem(p) => pedido' = pedido
             /\ \A q \in 0..MaxCantidad :
                   UpdateItemCantidad(p, q) => pedido' = pedido]_vars

\* positions of the line items that do not reference product p
Otros(items, p) == {i \in 1..Len(items) : items[i].productoId # p}

\* C19: after removeItem(p) no line item references product p, however
\* many did, and the line items left are the earlier items of other
\* products, in their earlier order and with every field as before.
C19_RemoveItem ==
    [][\A p \in 1..MaxProducto :
          RemoveItem(p)
          => /\ \A k \in 1..Len(pedido'.items) : pedido'.items[k].productoId # p
             /\ Len(pedido'.items) = Cardinality(Otros(pedido.items, p))
             /\ \A i \in Otros(pedido.items, p) :
                   pedido'.items[Cardinality({j \in Otros(pedido.items, p) : j <= i})]
                      = pedido.items[i]]_vars

\* C19 witness: removeItem was the last call and one line item, of the
\* last product, is left in the Pedido.
C19_Witness ==
    /\ lastCall = "removeItem"
    /\ Len(pedido.items) = 1
    /\ pedido.items[1].productoId = MaxProducto
    /\ pedido.total = pedido.items[1].subtotal

\* C20: every line item has cantidad >= 1, in the Pedido in memory after
\* any sequence of addItem and updateItemCantidad calls and in the rows of
\* pedido_items.
C20_CantidadPositiva ==
    /\ \A i \in 1..Len(pedido.items) : pedido.items[i].cantidad >= 1
    /\ \A id \in Ids :
          \A i \in 1..Len(pedido_items[id]) : pedido_items[id][i].cantidad >= 1

\* C21: a createPedido request with a line item whose cantidad is below 1
\* or whose precioUnitario is negative is rejected with a validation error
\* and creates no row of pedidos and no row of pedido_items.
C21_InvalidItemRejected ==
    [][\A r \in Reqs, dto \in CreatePedidoDTOs \cup {PrecioNegativo},
         forbidUnknownValues \in BOOLEAN :
          (~DTOValido(dto) /\ CreatePedido(r, dto, forbidUnknownValues))
          => /\ ~result'[r].success
             /\ pedidos' = pedidos
             /\ pedido_items' = pedido_items]_vars

\* C22: a Producto built with stock >= 0 keeps stock >= 0 for ever; stock
\* goes down only in a call of decrementarStock; and decrementarStock with
\* cantidad <= 0 or cantidad > stock throws and leaves stock as it was.
C22_StockNoNegativo ==
    [][/\ producto.stock >= 0 => producto'.stock >= 0
       /\ producto'.stock < producto.stock => lastCall' = "decrementarStock"
       /\ \A cantidad \in -1..MaxStock + 1 :
             (DecrementarStock(cantidad)
                /\ (cantidad <= 0 \/ cantidad > producto.stock))
             => /\ lastCall' = "decrementarStock: Error"
                /\ producto'.stock = producto.stock]_vars

\* C23: updateEstadoPedido called with an id that has no order row, and a
\* procesarPago whose order row does not exist when it is read or is gone
\* when its last write is applied, end at that step with the not-found
\* failure, never with success; and no step of either creates an order row
\* or an item row.
C23_NotFound ==
    [][\A r \in Reqs :
          /\ ( /\ pc[r] = "idle"
               /\ call'[r].op \in {"updateEstadoPedido", "procesarPago"}
               /\ ~Existe(pedidos, call'[r].id) )
             => /\ pc'[r] = "done"
                /\ result'[r] = Fallo(ErrNoEncontrado)
          /\ ( /\ pc[r] = "pago_estado"
               /\ pc'[r] # pc[r]
               /\ ~Existe(pedidos, call[r].id) )
             => /\ pc'[r] = "done"
                /\ result'[r] = Fallo(ErrNoEncontrado)
          /\ ( /\ pc'[r] # pc[r]
               /\ call'[r].op \in {"updateEstadoPedido", "procesarPago"} )
             => /\ \A id \in Ids : Existe(pedidos', id) = Existe(pedidos, id)
                /\ pedido_items' = pedido_items]_vars

\* C24: when repository update(order) commits, the item rows of that order
\* id are exactly the items of the passed order, in their order, and the
\* order row exists and holds the passed order's state, total, address,
\* method and reference.
C24_UpdateReplaces ==
    [][\A r \in Reqs :
          (CommitDe(r) /\ call[r].op = "update")
          => /\ pedido_items'[call[r].id] = local[r].pedido.items
             /\ Existe(pedidos', call[r].id)
             /\ pedidos'[call[r].id] = RowOf(local[r].pedido)]_vars

\* C25: no committed state holds an item row whose order row does not
\* exist: the commit of delete(id) leaves neither the order row nor any of
\* its item rows, and no step of any interleaving of delete with update
\* leaves items under an order id that has no row.
C25_NoOrphanItems ==
    [][/\ \A r \in Reqs :
             (pc[r] = "tx_delete_commit" /\ pc'[r] = "done" /\ result'[r].success)
             => /\ ~Existe(pedidos', call[r].id)
                /\ pedido_items'[call[r].id] = <<>>
       /\ \A id \in Ids : ~Existe(pedidos', id) => pedido_items'[id] = <<>>]_vars

\* C26: every step that changes the persisted state of an order is taken by
\* a request of an admin, except the step of a payment that takes a pending
\* order to paid; in particular every change to shipped, delivered or
\* cancelled is an admin's.
C26_AdminOnly ==
    [][\A r \in Reqs, id \in Ids :
          ( /\ pc'[r] # pc[r]
            /\ Existe(pedidos, id) /\ Existe(pedidos', id)
            /\ pedidos'[id].estado # pedidos[id].estado
            /\ user[r] # "admin" )
          => /\ call[r].op = "procesarPago"
             /\ pedidos[id].estado = PENDIENTE
             /\ pedidos'[id].estado = PAGADO]_vars

\* what the repository holds for the question a get operation asks
RepoDe(op, arg) ==
    CASE op = "getAllProductos" -> findAll(productos)
      [] op = "getProductoById" -> findByIdProducto(productos, arg)
      [] OTHER -> findByCategoria(productos, arg)

GetsProducto == {"getAllProductos", "getProductoById", "getProductosByCategoria"}

\* C27: a getAllProductos, getProductoById or getProductosByCategoria that
\* runs while no other operation is in flight and answers from the cache
\* returns exactly what the repository holds at that moment, whatever
\* writes completed before it.  (On a cache miss it returns the
\* repository's answer itself.)
C27_CacheInvalidated ==
    [][\A r \in Reqs :
          ( /\ pc[r] = "idle"
            /\ pc'[r] = "done"
            /\ call'[r].op \in GetsProducto
            /\ \A q \in Reqs \ {r} : pc[q] \in {"idle", "done"} )
          => result'[r].value = RepoDe(call'[r].op, call'[r].id)]_vars

\* C28: at the step in which a procesarPago call returns success with a
\* reference, the order row exists, its state is paid and its stored
\* reference is the returned one, whatever other requests ran in between.
C28_PagoDevuelto ==
    [][\A r \in Reqs :
          (pc[r] = "pago_return" /\ pc'[r] = "done" /\ result'[r].success)
          => /\ Existe(pedidos', call[r].id)
             /\ pedidos'[call[r].id].estado = PAGADO
             /\ pedidos'[call[r].id].referenciaPago = result'[r].referenciaPago]_vars

\* the body of a PUT /:id that changes the shipping address and nothing else
SoloDireccion == [NoDTO EXCEPT !.direccionEnvio = "dir1"]

\* C29: when an updatePedido that changes only the address read the order
\* pending, and a procesarPago on that order has since returned success and
\* left it paid with its reference, the write of the update leaves the
\* order paid with that reference.
C29_UpdateKeepsSettlement ==
    [][\A r \in Reqs, q \in Reqs :
          ( /\ pc[r] = "update_commit" /\ pc'[r] = "done"
            /\ call[r].dto = SoloDireccion
            /\ local[r].estado = PENDIENTE
            /\ pc[q] = "done" /\ call[q].op = "procesarPago"
            /\ call[q].id = call[r].id /\ result[q].success
            /\ Existe(pedidos, call[r].id)
            /\ pedidos[call[r].id].estado = PAGADO
            /\ pedidos[call[r].id].referenciaPago = result[q].referenciaPago )
          => /\ pedidos'[call[r].id].estado = PAGADO
             /\ pedidos'[call[r].id].referenciaPago = result[q].referenciaPago]_vars

\* C30: every Pedido that findById returns has the total of its own items:
\* total equals the sum of the subtotals of the returned items, as it does
\* in every committed version of an order, even when an update or a delete
\* of the order commits while the read is running.
C30_ConsistentSnapshot ==
    [][\A r \in Reqs :
          (pc[r] = "find_map" /\ pc'[r] = "done")
          => result'[r].value.total = SumSubtotal(result'[r].value.items)]_vars
====
